---- MODULE Spec2Model ----
(***************************************************************************)
(* A state-machine model of leaflet.wms.js: a wms.Source with its          *)
(* wms.Overlay (or tiled layer), the wms.Layer handles registered with it, *)
(* the image overlays the Overlay puts on the map, and the GetFeatureInfo  *)
(* requests of identify().  JavaScript strings are TLA+ strings; a         *)
(* JavaScript object is the sequence of its own properties in creation     *)
(* order, enumerated by ObjectKeys.                                        *)
(***************************************************************************)
EXTENDS Integers, Sequences, FiniteSets, TLC

\* Image requests the Overlay may issue in one behaviour.
MaxImages == 3

\* GetFeatureInfo requests identify() may issue in one behaviour.
MaxIdentify == 2

\* Registrations of identify as the map's click handler in one behaviour.
MaxHandlers == 2

(***************************************************************************)
(* Strings                                                                 *)
(***************************************************************************)

\* The printable ASCII characters in code order, code 32 first; the grave
\* accent (code 96), which a TLA+ string cannot hold, is left out.
Ascii == " !\"#$%&'()*+,-./0123456789:;<=>?@ABCDEFGHIJKLMNOPQRSTUVWXYZ[\\]^_abcdefghijklmnopqrstuvwxyz{|}~"

CharAt(s, i) == SubSeq(s, i, i)

Chars == {CharAt(Ascii, i) : i \in 1..Len(Ascii)}

Digits == "0123456789"

HexDigits == "0123456789ABCDEF"

\* Characters encodeURIComponent leaves alone.
Unreserved == "ABCDEFGHIJKLMNOPQRSTUVWXYZabcdefghijklmnopqrstuvwxyz0123456789-_.!~*'()"

InString(c, s) == \E i \in 1..Len(s) : CharAt(s, i) = c

IndexIn(c, s) == CHOOSE i \in 1..Len(s) : CharAt(s, i) = c

\* The character code of a printable ASCII character.
CharCode == [c \in Chars |->
    IF IndexIn(c, Ascii) <= 64 THEN IndexIn(c, Ascii) + 31
    ELSE IndexIn(c, Ascii) + 32]

\* encodeURIComponent of one character: itself or its %XX escape.
EncodeChar == [c \in Chars |->
    IF InString(c, Unreserved) THEN c
    ELSE "%" \o CharAt(HexDigits, (CharCode[c] \div 16) + 1)
             \o CharAt(HexDigits, (CharCode[c] % 16) + 1)]

RECURSIVE EncodeURIComponent(_)
EncodeURIComponent(s) ==
    IF s = "" THEN ""
    ELSE EncodeChar[CharAt(s, 1)] \o EncodeURIComponent(SubSeq(s, 2, Len(s)))

\* String.prototype.toUpperCase on one character.
UpperChar == [c \in Chars |->
    IF CharCode[c] >= 97 /\ CharCode[c] <= 122
    THEN CHOOSE u \in Chars : CharCode[u] = CharCode[c] - 32 ELSE c]

RECURSIVE ToUpperCase(_)
ToUpperCase(s) ==
    IF s = "" THEN ""
    ELSE UpperChar[CharAt(s, 1)] \o ToUpperCase(SubSeq(s, 2, Len(s)))

\* Array.prototype.join over an array of strings.
RECURSIVE Join(_, _)
Join(arr, sep) ==
    IF Len(arr) = 0 THEN ""
    ELSE IF Len(arr) = 1 THEN arr[1]
    ELSE arr[1] \o sep \o Join(Tail(arr), sep)

\* The value of a string of decimal digits.
RECURSIVE DigitsValue(_)
DigitsValue(s) ==
    IF s = "" THEN 0
    ELSE 10 * DigitsValue(SubSeq(s, 1, Len(s) - 1))
         + (IndexIn(CharAt(s, Len(s)), Digits) - 1)

\* The length of the longest prefix of s made of decimal digits.
RECURSIVE DigitPrefixLen(_)
DigitPrefixLen(s) ==
    IF s = "" \/ ~InString(CharAt(s, 1), Digits) THEN 0
    ELSE 1 + DigitPrefixLen(SubSeq(s, 2, Len(s)))

RECURSIVE Pow10(_)
Pow10(n) == IF n = 0 THEN 1 ELSE 10 * Pow10(n - 1)

\* parseFloat of an unsigned decimal such as a WMS version: the longest
\* prefix "digits[.digits]" as the fraction num/den ("1.1.1" is 11/10).
ParseFloat(s) ==
    LET ni == DigitPrefixLen(s)
        rest == SubSeq(s, ni + 1, Len(s))
        hasDot == rest # "" /\ CharAt(rest, 1) = "."
        frac == IF hasDot THEN SubSeq(rest, 2, Len(rest)) ELSE ""
        nf == DigitPrefixLen(frac)
    IN  [num |-> DigitsValue(SubSeq(s, 1, ni)) * Pow10(nf)
                 + DigitsValue(SubSeq(frac, 1, nf)),
         den |-> Pow10(nf)]

(***************************************************************************)
(* JavaScript objects                                                      *)
(***************************************************************************)

\* A property name that is an array index ("0", "7", "12", below 2^32 - 1):
\* such keys are enumerated first, in ascending numeric order.
IsArrayIndex(k) ==
    /\ k # ""
    /\ DigitPrefixLen(k) = Len(k)
    /\ (Len(k) = 1 \/ CharAt(k, 1) # "0")
    /\ \/ Len(k) < 10
       \/ /\ Len(k) = 10
          /\ \/ DigitsValue(SubSeq(k, 1, 9)) < 429496729
             \/ /\ DigitsValue(SubSeq(k, 1, 9)) = 429496729
                /\ DigitsValue(SubSeq(k, 10, 10)) < 5

\* The sequence s sorted ascending by DigitsValue.
RECURSIVE SortIndexKeys(_)
SortIndexKeys(s) ==
    IF Len(s) = 0 THEN <<>>
    ELSE LET m == CHOOSE i \in 1..Len(s) :
                    \A j \in 1..Len(s) : DigitsValue(s[i]) <= DigitsValue(s[j])
         IN  <<s[m]>> \o SortIndexKeys(SubSeq(s, 1, m - 1) \o SubSeq(s, m + 1, Len(s)))

IsIndexKey(k) == IsArrayIndex(k)

IsNameKey(k) == ~IsArrayIndex(k)

\* Object.keys of an object with the property names `props` in creation order.
ObjectKeys(props) ==
    SortIndexKeys(SelectSeq(props, IsIndexKey)) \o SelectSeq(props, IsNameKey)

HasKey(props, k) == \E i \in 1..Len(props) : props[i] = k

\* obj[k] = true
SetKey(props, k) == IF HasKey(props, k) THEN props ELSE Append(props, k)

\* delete obj[k]
DeleteKey(props, k) == SelectSeq(props, LAMBDA x : x # k)

\* A parameter object: its properties as a sequence of [k, v] in creation
\* order (no WMS parameter name is an array index).
HasParam(params, k) == \E i \in 1..Len(params) : params[i].k = k

Param(params, k) == params[CHOOSE i \in 1..Len(params) : params[i].k = k].v

\* params[k] = v
SetParam(params, k, v) ==
    IF HasParam(params, k)
    THEN [i \in 1..Len(params) |->
            IF params[i].k = k THEN [k |-> k, v |-> v] ELSE params[i]]
    ELSE Append(params, [k |-> k, v |-> v])

\* L.extend(dest, src)
RECURSIVE Extend(_, _)
Extend(dest, src) ==
    IF Len(src) = 0 THEN dest
    ELSE Extend(SetParam(dest, src[1].k, src[1].v), Tail(src))

\* The "k=v" pairs of L.Util.getParamString.
RECURSIVE ParamPairs(_, _)
ParamPairs(params, uppercase) ==
    IF Len(params) = 0 THEN <<>>
    ELSE <<EncodeURIComponent(IF uppercase THEN ToUpperCase(params[1].k)
                                           ELSE params[1].k)
           \o "=" \o EncodeURIComponent(params[1].v)>>
         \o ParamPairs(Tail(params), uppercase)

\* L.Util.getParamString(obj, existingUrl, uppercase)
GetParamString(params, existingUrl, uppercase) ==
    (IF InString("?", existingUrl) THEN "&" ELSE "?")
    \o Join(ParamPairs(params, uppercase), "&")

(***************************************************************************)
(* Inputs                                                                  *)
(***************************************************************************)

\* The URL the Source is constructed with.
SourceUrl == "http://ows.example/wms"

\* The sub-layer names in use; "1" is an array-index name.
Names == {"roads", "rivers", "1"}

\* The wms.Layer handles obtained from the Source, each with its name.
LayerName == [h \in {"roadsA", "roadsB"} |-> "roads"]

Handles == DOMAIN LayerName

\* The text of the onError callback, as String(callback) gives it.
OnErrorSource == "function(e){}"

\* The map's reference system (map.options.crs), here L.CRS.EPSG4326 with
\* its longitude/latitude projection.
MapCrs == [code |-> "EPSG:4326", isEPSG4326 |-> TRUE]

\* A reference system given as the crs option: L.CRS.EPSG4326 extended with
\* the code CRS:84, an object other than L.CRS.EPSG4326 with the same
\* longitude/latitude projection.
Crs84 == [code |-> "CRS:84", isEPSG4326 |-> FALSE]

\* The options a Source is constructed with: a property that is not given
\* is the empty set, one that is given is the singleton of its value.
UserOptions ==
    [tiled : BOOLEAN,
     identifyLayers : {{}, {<<"rivers">>}},
     onError : {{}, {OnErrorSource}},
     crs : {{}, {Crs84}}]

\* The viewports the map shows: bounds in degrees, size in pixels.
Viewports ==
    {[south |-> 5, west |-> 10, north |-> 15, east |-> 20, width |-> 800, height |-> 600],
     [south |-> 5, west |-> 30, north |-> 15, east |-> 40, width |-> 800, height |-> 600]}

InitialViewport == CHOOSE v \in Viewports : v.west = 10

\* A property of a parameters object: its key and its value.
P(k, v) == [k |-> k, v |-> v]

\* The arguments overlay.setParams is called with.
ParamChanges ==
    {<<P("version", "1.3.0")>>, <<P("version", "1.1.1")>>}

\* The URLs Sources are looked up by.
Urls == {SourceUrl, "http://ows.example/other"}

\* The options a lookup is made with.
LookupOptions ==
    {o \in UserOptions : o.identifyLayers = {} /\ o.crs = {}}

\* The layers getFeatureInfo is called with directly.
DirectLayers == {<<"roads">>}

\* The map clicks: the container point and the geographic coordinate.
Clicks == {[x |-> 100, y |-> 200, latlng |-> [lat |-> 12, lng |-> 11]]}

\* The point and coordinate getFeatureInfo is called with directly.
DirectPoints == {[x |-> 300, y |-> 400, latlng |-> [lat |-> 8, lng |-> 13]]}

\* What the transport may answer to a GET: the status and the response text.
Responses ==
    {[status |-> 200, text |-> "<b>Main St</b>"],
     [status |-> 200, text |-> "error"],
     [status |-> 404, text |-> "Not Found"]}

(***************************************************************************)
(* wms.Overlay                                                             *)
(***************************************************************************)

defaultWmsParams ==
    <<P("service", "WMS"), P("request", "GetMap"), P("version", "1.1.1"),
      P("layers", ""), P("styles", ""), P("format", "image/jpeg"),
      P("transparent", "false")>>

\* The options Overlay.initialize moves to the WMS parameters and deletes
\* from the options object it is given: every own property that is not one
\* of optNames (crs, uppercase, tiled, identify, opacity, attribution).
MovedParams(options) ==
    (IF options.identifyLayers = {} THEN <<>>
     ELSE <<P("identifyLayers",
              Join(CHOOSE l \in options.identifyLayers : TRUE, ","))>>)
    \o (IF options.onError = {} THEN <<>>
        ELSE <<P("onError", CHOOSE f \in options.onError : TRUE)>>)

\* The options object after Overlay.initialize has run on it.
StripOptions(options) ==
    [options EXCEPT !.identifyLayers = {}, !.onError = {}]

\* wms.overlay(url, options): the new Overlay.
OverlayInitialize(options) ==
    [kind |-> "overlay",
     onMap |-> FALSE,
     wmsParams |-> Extend(defaultWmsParams, MovedParams(options)),
     currentUrl |-> {},
     currentOverlay |-> 0,
     onError |-> options.onError # {},
     crs |-> options.crs,
     uppercase |-> FALSE]

\* wms.tileLayer(url, options): Leaflet's tiled WMS layer, which writes the
\* tile size as height and width, copies the options it does not know
\* (crs excepted) to its WMS parameters, and deletes nothing.
TileLayerInitialize(options) ==
    [kind |-> "tile",
     onMap |-> FALSE,
     wmsParams |-> Extend(Extend(defaultWmsParams,
                                 <<P("height", "256"), P("width", "256"),
                                   P("tiled", "true"), P("identify", "true")>>),
                          MovedParams(options)),
     currentUrl |-> {},
     currentOverlay |-> 0,
     onError |-> FALSE,
     crs |-> options.crs,
     uppercase |-> FALSE]

\* crs.project of L.CRS.EPSG4326: x is the longitude, y the latitude.
Project(lat, lng) == [x |-> lng, y |-> lat]

\* wmsVersion >= 1.3
VersionAtLeast13(params) ==
    LET v == ParseFloat(Param(params, "version"))
    IN  v.num * 10 >= 13 * v.den

\* Overlay.updateWmsParams writing the bbox west,south,east,north whatever
\* the version and the reference system.
UpdateWmsParams_WestFirst(params, crsOption, view) ==
    LET crs == IF crsOption # {} THEN CHOOSE c \in crsOption : TRUE ELSE MapCrs
        projectionKey == IF VersionAtLeast13(params) THEN "crs" ELSE "srs"
        nw == Project(view.north, view.west)
        se == Project(view.south, view.east)
        bbox == <<nw.x, se.y, se.x, nw.y>>
    IN  Extend(params,
               <<P("width", ToString(view.width)),
                 P("height", ToString(view.height)),
                 P(projectionKey, crs.code),
                 P("bbox", Join([i \in 1..4 |-> ToString(bbox[i])], ","))>>)

\* Overlay.updateWmsParams: the WMS parameters with the viewport's written in.
UpdateWmsParams(params, crsOption, view) ==
    LET crs == IF crsOption # {} THEN CHOOSE c \in crsOption : TRUE ELSE MapCrs
        projectionKey == IF VersionAtLeast13(params) THEN "crs" ELSE "srs"
        nw == Project(view.north, view.west)
        se == Project(view.south, view.east)
        bbox == IF VersionAtLeast13(params) /\ crs.isEPSG4326
                THEN <<se.y, nw.x, nw.y, se.x>>
                ELSE <<nw.x, se.y, se.x, nw.y>>
    IN  Extend(params,
               <<P("width", ToString(view.width)),
                 P("height", ToString(view.height)),
                 P(projectionKey, crs.code),
                 P("bbox", Join([i \in 1..4 |-> ToString(bbox[i])], ","))>>)

\* Overlay.getImageUrl
GetImageUrl(o) ==
    SourceUrl \o GetParamString(o.wmsParams, SourceUrl, o.uppercase)

\* L.imageOverlay(url, bounds, {opacity: 0}) added to the map.
NewImage(url) == [url |-> url, status |-> "loading", onMap |-> TRUE, opacity |-> 0]

\* map.removeLayer(image) for image i (0: no image).
RemoveImage(imgs, i) ==
    IF i = 0 THEN imgs ELSE [imgs EXCEPT ![i].onMap = FALSE]

\* Overlay.update without the comparison with the last-issued URL: every
\* call issues a request.
OverlayUpdate_NoUrlCheck(w, view) ==
    IF ~w.o.onMap THEN w
    ELSE LET params == UpdateWmsParams(w.o.wmsParams, w.o.crs, view)
             o1 == [w.o EXCEPT !.wmsParams = params]
             url == GetImageUrl(o1)
         IN  [o |-> [o1 EXCEPT !.currentUrl = {url}],
              imgs |-> Append(w.imgs, NewImage(url))]

\* Overlay.update without the return for an Overlay that is not on a map.
OverlayUpdate_NoMapCheck(w, view) ==
    LET params == UpdateWmsParams(w.o.wmsParams, w.o.crs, view)
        o1 == [w.o EXCEPT !.wmsParams = params]
        url == GetImageUrl(o1)
    IN  IF o1.currentUrl = {url} THEN [w EXCEPT !.o = o1]
        ELSE [o |-> [o1 EXCEPT !.currentUrl = {url}],
              imgs |-> Append(w.imgs, NewImage(url))]

\* Overlay.update on the pair w = [o: the Overlay, imgs: the images].
OverlayUpdate(w, view) ==
    IF ~w.o.onMap THEN w
    ELSE LET params == UpdateWmsParams(w.o.wmsParams, w.o.crs, view)
             o1 == [w.o EXCEPT !.wmsParams = params]
             url == GetImageUrl(o1)
         IN  IF o1.currentUrl = {url} THEN [w EXCEPT !.o = o1]
             ELSE [o |-> [o1 EXCEPT !.currentUrl = {url}],
                   imgs |-> Append(w.imgs, NewImage(url))]

\* Overlay.setParams (for the tiled layer: Leaflet's setParams).
OverlaySetParams(w, params, view) ==
    LET w1 == [w EXCEPT !.o.wmsParams = Extend(w.o.wmsParams, params)]
    IN  IF w.o.kind = "tile" THEN w1 ELSE OverlayUpdate(w1, view)

\* L.TileLayer.WMS.onAdd: the parameters with the code of the reference
\* system written under srs, or under crs for a version of at least 1.3.
TileLayerOnAddParams(o) ==
    LET crs == IF o.crs # {} THEN CHOOSE c \in o.crs : TRUE ELSE MapCrs
        projectionKey == IF VersionAtLeast13(o.wmsParams) THEN "crs" ELSE "srs"
    IN  Extend(o.wmsParams, <<P(projectionKey, crs.code)>>)

\* Overlay.onAdd (for the tiled layer: Leaflet's onAdd).
OverlayOnAdd(w, view) ==
    LET w1 == [w EXCEPT !.o.onMap = TRUE]
    IN  IF w.o.kind = "tile"
        THEN [w1 EXCEPT !.o.wmsParams = TileLayerOnAddParams(w.o)]
        ELSE OverlayUpdate(w1, view)

\* Overlay.onRemove
OverlayOnRemove(w) ==
    [o |-> [w.o EXCEPT !.currentOverlay = 0, !.currentUrl = {}, !.onMap = FALSE],
     imgs |-> RemoveImage(w.imgs, w.o.currentOverlay)]

\* overlay.addTo(map): map.addLayer does nothing for a layer it has.
OverlayAddTo(w, view) == IF w.o.onMap THEN w ELSE OverlayOnAdd(w, view)

\* map.removeLayer(overlay): nothing for a layer the map does not have.
MapRemoveOverlay(w) == IF w.o.onMap THEN OverlayOnRemove(w) ELSE w

\* _swap without the comparison with the last-issued URL: whichever image
\* loads last is displayed.
Swap_NoUrlCheck(w, i) ==
    IF ~w.o.onMap THEN w
    ELSE [o |-> [w.o EXCEPT !.currentOverlay = i],
          imgs |-> [RemoveImage(w.imgs, w.o.currentOverlay) EXCEPT ![i].opacity = 1]]

\* _swap leaving the image displayed before on the map.
Swap_KeepPrevious(w, i) ==
    IF ~w.o.onMap THEN w
    ELSE IF {w.imgs[i].url} # w.o.currentUrl
    THEN [w EXCEPT !.imgs = RemoveImage(w.imgs, i)]
    ELSE [o |-> [w.o EXCEPT !.currentOverlay = i],
          imgs |-> [w.imgs EXCEPT ![i].opacity = 1]]

\* The function _swap of Overlay.update, run when image i has loaded.
Swap(w, i) ==
    IF ~w.o.onMap THEN w
    ELSE IF {w.imgs[i].url} # w.o.currentUrl
    THEN [w EXCEPT !.imgs = RemoveImage(w.imgs, i)]
    ELSE [o |-> [w.o EXCEPT !.currentOverlay = i],
          imgs |-> [RemoveImage(w.imgs, w.o.currentOverlay) EXCEPT ![i].opacity = 1]]

(***************************************************************************)
(* wms.Source                                                              *)
(***************************************************************************)

\* L.setOptions(this, options) over the class options tiled and identify.
SourceOptions(user) ==
    [tiled |-> user.tiled, identify |-> TRUE,
     identifyLayers |-> user.identifyLayers, onError |-> user.onError,
     crs |-> user.crs]

\* Source.createOverlay
CreateOverlay(options) ==
    IF options.tiled THEN TileLayerInitialize(options)
    ELSE OverlayInitialize(options)

\* The Source's options object after Source.initialize: the non-tiled
\* Overlay is constructed on that very object.
OptionsAfterCreate(options) ==
    IF options.tiled THEN options ELSE StripOptions(options)

\* Source.refreshOverlay setting the layers only when it attaches the Overlay.
RefreshOverlay_AttachOnly(onMap, props, w, view) ==
    LET layerList == Join(ObjectKeys(props), ",")
    IN  IF ~onMap THEN w
        ELSE IF layerList = "" THEN MapRemoveOverlay(w)
        ELSE IF w.o.onMap THEN w
        ELSE OverlayAddTo(OverlaySetParams(w, <<P("layers", layerList)>>, view), view)

\* Source.refreshOverlay that never takes the Overlay off the map.
RefreshOverlay_NoDetach(onMap, props, w, view) ==
    LET layerList == Join(ObjectKeys(props), ",")
    IN  IF ~onMap \/ layerList = "" THEN w
        ELSE OverlayAddTo(OverlaySetParams(w, <<P("layers", layerList)>>, view), view)

\* Source.refreshOverlay
RefreshOverlay(onMap, props, w, view) ==
    LET layerList == Join(ObjectKeys(props), ",")
    IN  IF ~onMap THEN w
        ELSE IF layerList = "" THEN MapRemoveOverlay(w)
        ELSE OverlayAddTo(OverlaySetParams(w, <<P("layers", layerList)>>, view), view)

\* Source.getIdentifyLayers
GetIdentifyLayers(options, props) ==
    IF options.identifyLayers # {}
    THEN CHOOSE l \in options.identifyLayers : TRUE
    ELSE ObjectKeys(props)

\* Source.getFeatureInfoParams, in the non-tiled mode (the existing
\* Overlay's parameters) and in the tiled mode (those of a new Overlay
\* constructed on the Source's options and updated to the viewport).
GetFeatureInfoParams(options, o, click, layers, view) ==
    LET wmsParams ==
            IF options.tiled
            THEN SetParam(UpdateWmsParams(OverlayInitialize(options).wmsParams,
                                          options.crs, view),
                          "layers", Join(layers, ","))
            ELSE o.wmsParams
    IN  Extend(wmsParams,
               <<P("request", "GetFeatureInfo"),
                 P("query_layers", Join(layers, ",")),
                 P("X", ToString(click.x)),
                 P("Y", ToString(click.y))>>)

\* The Source's options object after getFeatureInfoParams.
OptionsAfterParams(options) ==
    IF options.tiled THEN StripOptions(options) ELSE options

\* The url of Source.getFeatureInfo
FeatureInfoUrl(params) == SourceUrl \o GetParamString(params, SourceUrl, FALSE)

\* What ajax hands to its callback for a response.
AjaxResult(resp) == IF resp.status = 200 THEN resp.text ELSE "error"

\* Source.parseFeatureInfo
ParseFeatureInfo(result, url) ==
    IF result = "error"
    THEN "<iframe src='" \o url \o "' style='border:none'>"
    ELSE result

\* Source.showWaiting and Source.hideWaiting: the cursor they leave.
ShowWaiting(onMap, cur) == IF ~onMap THEN cur ELSE "progress"

HideWaiting(onMap, cur) == IF ~onMap THEN cur ELSE "default"

\* Source.showFeatureInfo: the popup it leaves (a set of at most one).
ShowFeatureInfo(onMap, pop, latlng, info) ==
    IF ~onMap THEN pop ELSE {[content |-> info, latlng |-> latlng]}

\* The error listener reporting the last-issued URL instead of the image's.
ImageErrorListener_CurrentUrl(o, log, url) ==
    IF o.onError
    THEN Append(log, [error |-> "Failed to load layer",
                      url |-> CHOOSE u \in o.currentUrl \cup {url} :
                                  o.currentUrl # {} => u \in o.currentUrl])
    ELSE log

\* The error listener of Overlay.update: the calls of onError so far.
ImageErrorListener(o, log, url) ==
    IF o.onError THEN Append(log, [error |-> "Failed to load layer", url |-> url])
    ELSE log

(***************************************************************************)
(* The cache of Sources                                                    *)
(***************************************************************************)

\* wms.source(url, options): a new Source, an object of its own (id), with
\* its options as Source.initialize leaves them.
NewSource(id, url, user) ==
    [id |-> id, url |-> url, options |-> OptionsAfterCreate(SourceOptions(user))]

\* A lookup that constructs a Source every time and stores it over the entry.
SourcesAfterLookup_Replace(cache, url, user) ==
    [u \in DOMAIN cache \cup {url} |->
        IF u = url THEN NewSource(Cardinality(DOMAIN cache) + 1, url, user)
        ELSE cache[u]]

\* wms.getSourceForUrl: the cache after the lookup of url; the Source it
\* returns is the entry of url.
SourcesAfterLookup(cache, url, user) ==
    IF url \in DOMAIN cache THEN cache
    ELSE [u \in DOMAIN cache \cup {url} |->
            IF u = url THEN NewSource(Cardinality(DOMAIN cache) + 1, url, user)
            ELSE cache[u]]

(***************************************************************************)
(* State                                                                   *)
(***************************************************************************)

VARIABLES
    config,       \* the options the Source was constructed with
    options,      \* Source.options
    subLayers,    \* Source._subLayers: its property names in creation order
    srcOnMap,     \* whether Source._map is set
    overlay,      \* Source._overlay
    images,       \* the image overlays the Overlay has created, oldest first
    viewport,     \* the map's viewport
    layersOnMap,  \* the Layer handles that are on the map
    errorLog,     \* the arguments onError was called with, oldest first
    requests,     \* the GetFeatureInfo requests issued, oldest first
    delivered,    \* the last call of the display hook showFeatureInfo (a set
                  \* of at most one), with the response that caused it and
                  \* the number of requests issued by then
    cursor,       \* map._container.style.cursor
    popup,        \* the map's open popup (a set of at most one)
    clickHandlers, \* how many times identify is registered as click handler
    sources,      \* the cache of getSourceForUrl: a Source for each URL it holds
    returned      \* the last lookup in the cache (a set of at most one): its
                  \* arguments and the Source it returned

overlayVars == <<overlay, images>>

identifyVars == <<requests, delivered, cursor, popup>>

cacheVars == <<sources, returned>>

vars == <<config, options, subLayers, srcOnMap, overlay, images, viewport,
          layersOnMap, errorLog, requests, delivered, cursor, popup,
          clickHandlers, sources, returned>>

World == [o |-> overlay, imgs |-> images]

\* The state after wms.source(SourceUrl, user) for every user in UserOptions.
Init ==
    /\ config \in UserOptions
    /\ options = OptionsAfterCreate(SourceOptions(config))
    /\ overlay = CreateOverlay(SourceOptions(config))
    /\ subLayers = <<>>
    /\ srcOnMap = FALSE
    /\ images = <<>>
    /\ viewport = InitialViewport
    /\ layersOnMap = {}
    /\ errorLog = <<>>
    /\ requests = <<>>
    /\ delivered = {}
    /\ cursor = ""
    /\ popup = {}
    /\ clickHandlers = 0
    /\ sources = [u \in {} |-> {}]
    /\ returned = {}

\* The Overlay and the images become w; no more than MaxImages requests.
SetWorld(w) ==
    /\ Len(w.imgs) <= MaxImages
    /\ overlay' = w.o
    /\ images' = w.imgs

\* Source.addSubLayer(name)
AddSubLayer(name) ==
    /\ subLayers' = SetKey(subLayers, name)
    /\ SetWorld(RefreshOverlay(srcOnMap, subLayers', World, viewport))
    /\ UNCHANGED <<config, options, srcOnMap, viewport, layersOnMap, errorLog>>
    /\ UNCHANGED identifyVars
    /\ UNCHANGED cacheVars
    /\ UNCHANGED clickHandlers

\* Source.removeSubLayer(name)
RemoveSubLayer(name) ==
    /\ subLayers' = DeleteKey(subLayers, name)
    /\ SetWorld(RefreshOverlay(srcOnMap, subLayers', World, viewport))
    /\ UNCHANGED <<config, options, srcOnMap, viewport, layersOnMap, errorLog>>
    /\ UNCHANGED identifyVars
    /\ UNCHANGED cacheVars
    /\ UNCHANGED clickHandlers

\* source.addTo(map): Source.onAdd; L.Layer.onAdd registers the handlers of
\* getEvents, here identify for click, once more at every call.
SourceAddTo ==
    /\ ~srcOnMap
    /\ clickHandlers < MaxHandlers
    /\ srcOnMap' = TRUE
    /\ clickHandlers' = clickHandlers + 1
    /\ SetWorld(RefreshOverlay(TRUE, subLayers, World, viewport))
    /\ UNCHANGED <<config, options, subLayers, viewport, layersOnMap, errorLog>>
    /\ UNCHANGED identifyVars
    /\ UNCHANGED cacheVars

\* map.removeLayer(source): L.Layer.onRemove, which Source does not override
\* and which leaves the handlers registered.
SourceRemove ==
    /\ srcOnMap
    /\ srcOnMap' = FALSE
    /\ UNCHANGED <<config, options, subLayers, viewport, layersOnMap, errorLog>>
    /\ UNCHANGED overlayVars
    /\ UNCHANGED identifyVars
    /\ UNCHANGED cacheVars
    /\ UNCHANGED clickHandlers

\* Layer.onAdd without the attachment of a Source that is not on a map.
LayerAddTo_NoSourceAdd(h) ==
    /\ h \notin layersOnMap
    /\ layersOnMap' = layersOnMap \cup {h}
    /\ subLayers' = SetKey(subLayers, LayerName[h])
    /\ SetWorld(RefreshOverlay(srcOnMap, subLayers', World, viewport))
    /\ UNCHANGED <<config, options, srcOnMap, viewport, errorLog>>
    /\ UNCHANGED identifyVars
    /\ UNCHANGED cacheVars
    /\ UNCHANGED clickHandlers

\* layer.addTo(map) for the Layer handle h: Layer.onAdd
LayerAddTo(h) ==
    /\ h \notin layersOnMap
    /\ srcOnMap \/ clickHandlers < MaxHandlers
    /\ layersOnMap' = layersOnMap \cup {h}
    /\ srcOnMap' = TRUE
    /\ clickHandlers' = IF srcOnMap THEN clickHandlers ELSE clickHandlers + 1
    /\ subLayers' = SetKey(subLayers, LayerName[h])
    /\ LET w1 == IF srcOnMap THEN World
                 ELSE RefreshOverlay(TRUE, subLayers, World, viewport)
       IN  SetWorld(RefreshOverlay(TRUE, subLayers', w1, viewport))
    /\ UNCHANGED <<config, options, viewport, errorLog>>
    /\ UNCHANGED identifyVars
    /\ UNCHANGED cacheVars

\* map.removeLayer(layer) for the Layer handle h: Layer.onRemove
LayerRemove(h) ==
    /\ h \in layersOnMap
    /\ layersOnMap' = layersOnMap \ {h}
    /\ subLayers' = DeleteKey(subLayers, LayerName[h])
    /\ SetWorld(RefreshOverlay(srcOnMap, subLayers', World, viewport))
    /\ UNCHANGED <<config, options, srcOnMap, viewport, errorLog>>
    /\ UNCHANGED identifyVars
    /\ UNCHANGED cacheVars
    /\ UNCHANGED clickHandlers

\* The map moves to viewport v and fires moveend: the Overlay's handler is
\* update, which does nothing while the Overlay is off the map.
MoveEnd(v) ==
    /\ v # viewport
    /\ viewport' = v
    /\ SetWorld(IF overlay.kind = "tile" THEN World ELSE OverlayUpdate(World, v))
    /\ UNCHANGED <<config, options, subLayers, srcOnMap, layersOnMap, errorLog>>
    /\ UNCHANGED identifyVars
    /\ UNCHANGED cacheVars
    /\ UNCHANGED clickHandlers

\* overlay.update() called with nothing changed since the last call.
Update ==
    /\ overlay.kind = "overlay"
    /\ SetWorld(OverlayUpdate(World, viewport))
    /\ UNCHANGED <<config, options, subLayers, srcOnMap, viewport, layersOnMap, errorLog>>
    /\ UNCHANGED identifyVars
    /\ UNCHANGED cacheVars
    /\ UNCHANGED clickHandlers

\* Image i finishes loading: its load listener _swap runs.
ImageLoad(i) ==
    /\ images[i].status = "loading"
    /\ SetWorld(Swap([o |-> overlay,
                      imgs |-> [images EXCEPT ![i].status = "loaded"]], i))
    /\ UNCHANGED <<config, options, subLayers, srcOnMap, viewport, layersOnMap, errorLog>>
    /\ UNCHANGED identifyVars
    /\ UNCHANGED cacheVars
    /\ UNCHANGED clickHandlers

\* Image i fails to load: its error listener runs.
ImageError(i) ==
    /\ images[i].status = "loading"
    /\ images' = [images EXCEPT ![i].status = "failed"]
    /\ errorLog' = ImageErrorListener(overlay, errorLog, images[i].url)
    /\ UNCHANGED <<config, options, subLayers, srcOnMap, viewport, layersOnMap, overlay>>
    /\ UNCHANGED identifyVars
    /\ UNCHANGED cacheVars
    /\ UNCHANGED clickHandlers

\* overlay.addTo(map) for the Overlay used on its own: Overlay.onAdd
OverlayAdd ==
    /\ overlay.kind = "overlay"
    /\ ~overlay.onMap
    /\ SetWorld(OverlayAddTo(World, viewport))
    /\ UNCHANGED <<config, options, subLayers, srcOnMap, viewport, layersOnMap, errorLog>>
    /\ UNCHANGED identifyVars
    /\ UNCHANGED cacheVars
    /\ UNCHANGED clickHandlers

\* map.removeLayer(overlay): Overlay.onRemove
OverlayRemove ==
    /\ overlay.kind = "overlay"
    /\ overlay.onMap
    /\ SetWorld(MapRemoveOverlay(World))
    /\ UNCHANGED <<config, options, subLayers, srcOnMap, viewport, layersOnMap, errorLog>>
    /\ UNCHANGED identifyVars
    /\ UNCHANGED cacheVars
    /\ UNCHANGED clickHandlers

\* overlay.setParams(params): Overlay.setParams
SetParams(params) ==
    /\ overlay.kind = "overlay"
    /\ SetWorld(OverlaySetParams(World, params, viewport))
    /\ UNCHANGED <<config, options, subLayers, srcOnMap, viewport, layersOnMap, errorLog>>
    /\ UNCHANGED identifyVars
    /\ UNCHANGED cacheVars
    /\ UNCHANGED clickHandlers

\* wms.getSourceForUrl(url, user)
GetSourceForUrl(url, user) ==
    /\ sources' = SourcesAfterLookup(sources, url, user)
    /\ returned' = {[url |-> url, options |-> user, layer |-> {},
                     source |-> sources'[url]]}
    /\ UNCHANGED <<config, options, subLayers, srcOnMap, viewport, layersOnMap, errorLog>>
    /\ UNCHANGED overlayVars
    /\ UNCHANGED identifyVars
    /\ UNCHANGED clickHandlers

\* new wms.Layer(url, name, user): Layer.initialize given a URL for a Source.
NewLayer(url, name, user) ==
    /\ sources' = SourcesAfterLookup(sources, url, user)
    /\ returned' = {[url |-> url, options |-> user, layer |-> {name},
                     source |-> sources'[url]]}
    /\ UNCHANGED <<config, options, subLayers, srcOnMap, viewport, layersOnMap, errorLog>>
    /\ UNCHANGED overlayVars
    /\ UNCHANGED identifyVars
    /\ UNCHANGED clickHandlers

\* Source.getFeatureInfo(point, latlng, layers, showFeatureInfo) on
\* st = [options, requests, cursor, thrown].  In the tiled mode
\* getFeatureInfoParams constructs an Overlay on the Source's options and
\* updates it for this._map, which throws when the Source is off the map.
GetFeatureInfoCall(st, click, layers, caller) ==
    IF st.options.tiled /\ ~srcOnMap
    THEN [st EXCEPT !.options = OptionsAfterParams(st.options), !.thrown = TRUE]
    ELSE LET params == GetFeatureInfoParams(st.options, overlay, click, layers, viewport)
         IN  [options |-> OptionsAfterParams(st.options),
              requests |-> Append(st.requests,
                  [url |-> FeatureInfoUrl(params), latlng |-> click.latlng,
                   layers |-> layers,
                   queryLayers |-> Param(params, "query_layers"),
                   status |-> "pending", caller |-> caller]),
              cursor |-> ShowWaiting(srcOnMap, st.cursor),
              thrown |-> FALSE]

\* Source.identify(evt)
IdentifyCall(st, click) ==
    LET layers == GetIdentifyLayers(st.options, subLayers)
    IN  IF Len(layers) = 0 THEN st
        ELSE GetFeatureInfoCall(st, click, layers, "identify")

\* The map fires click: the n registrations of identify run one after the
\* other, until one throws.
RECURSIVE ClickEvent(_, _, _)
ClickEvent(st, click, n) ==
    IF n = 0 \/ st.thrown THEN st
    ELSE ClickEvent(IdentifyCall(st, click), click, n - 1)

\* A click on the map: every registration of Source.identify runs, whether
\* the Source is on the map or not.
Identify(click) ==
    /\ clickHandlers > 0
    /\ LET st == ClickEvent([options |-> options, requests |-> requests,
                             cursor |-> cursor, thrown |-> FALSE],
                            click, clickHandlers)
       IN  /\ Len(st.requests) <= MaxIdentify
           /\ options' = st.options
           /\ requests' = st.requests
           /\ cursor' = st.cursor
    /\ UNCHANGED <<config, subLayers, srcOnMap, viewport, layersOnMap, errorLog,
                   delivered, popup, clickHandlers>>
    /\ UNCHANGED overlayVars
    /\ UNCHANGED cacheVars

\* source.getFeatureInfo(point, latlng, layers, source.showFeatureInfo)
\* called directly.
GetFeatureInfo(click, layers) ==
    /\ LET st == GetFeatureInfoCall([options |-> options, requests |-> requests,
                                     cursor |-> cursor, thrown |-> FALSE],
                                    click, layers, "direct")
       IN  /\ Len(st.requests) <= MaxIdentify
           /\ options' = st.options
           /\ requests' = st.requests
           /\ cursor' = st.cursor
    /\ UNCHANGED <<config, subLayers, srcOnMap, viewport, layersOnMap, errorLog,
                   delivered, popup, clickHandlers>>
    /\ UNCHANGED overlayVars
    /\ UNCHANGED cacheVars

\* overlay.updateWmsParams(map) called directly, on or off the map.
OverlayUpdateWmsParams ==
    /\ overlay.kind = "overlay"
    /\ overlay' = [overlay EXCEPT
                      !.wmsParams = UpdateWmsParams(overlay.wmsParams, overlay.crs, viewport)]
    /\ UNCHANGED <<config, options, subLayers, srcOnMap, images, viewport,
                   layersOnMap, errorLog, clickHandlers>>
    /\ UNCHANGED identifyVars
    /\ UNCHANGED cacheVars

\* The response resp to request r arrives: ajax's change() calls done().
AjaxDone(r, resp) ==
    /\ requests[r].status = "pending"
    /\ requests' = [requests EXCEPT ![r].status = "done"]
    /\ cursor' = HideWaiting(srcOnMap, cursor)
    /\ LET text == ParseFeatureInfo(AjaxResult(resp), requests[r].url)
       IN  /\ delivered' = {[req |-> r, issued |-> Len(requests), response |-> resp,
                            latlng |-> requests[r].latlng, info |-> text]}
           /\ popup' = ShowFeatureInfo(srcOnMap, popup, requests[r].latlng, text)
    /\ UNCHANGED <<config, options, subLayers, srcOnMap, viewport, layersOnMap, errorLog>>
    /\ UNCHANGED overlayVars
    /\ UNCHANGED cacheVars
    /\ UNCHANGED clickHandlers

Next ==
    \/ \E n \in Names : AddSubLayer(n)
    \/ \E n \in Names : RemoveSubLayer(n)
    \/ SourceAddTo
    \/ SourceRemove
    \/ \E h \in Handles : LayerAddTo(h)
    \/ \E h \in Handles : LayerRemove(h)
    \/ \E v \in Viewports : MoveEnd(v)
    \/ Update
    \/ OverlayAdd
    \/ OverlayRemove
    \/ \E p \in ParamChanges : SetParams(p)
    \/ \E i \in 1..Len(images) : ImageLoad(i)
    \/ \E i \in 1..Len(images) : ImageError(i)
    \/ \E c \in Clicks : Identify(c)
    \/ \E c \in DirectPoints, l \in DirectLayers : GetFeatureInfo(c, l)
    \/ OverlayUpdateWmsParams
    \/ \E r \in 1..Len(requests), resp \in Responses : AjaxDone(r, resp)
    \/ \E u \in Urls, o \in LookupOptions : GetSourceForUrl(u, o)
    \/ \E u \in Urls, o \in LookupOptions : NewLayer(u, "roads", o)

Spec == Init /\ [][Next]_vars

\* The Source and one Layer handle, attached and detached, and sub-layers
\* added and removed by name.
InitLayers ==
    Init /\ config.identifyLayers = {} /\ config.onError = {} /\ config.crs = {}

NextLayers ==
    \/ LayerAddTo("roadsA")
    \/ LayerRemove("roadsA")
    \/ \E n \in Names \ {"roads"} : AddSubLayer(n)
    \/ \E n \in Names \ {"roads"} : RemoveSubLayer(n)
    \/ SourceAddTo
    \/ SourceRemove

SpecLayers == InitLayers /\ [][NextLayers]_vars

\* The Layer handles of one name, attached and detached, and their Source.
NextHandles ==
    \/ \E h \in Handles : LayerAddTo(h)
    \/ \E h \in Handles : LayerRemove(h)
    \/ SourceAddTo
    \/ SourceRemove

SpecHandles == InitLayers /\ [][NextHandles]_vars

\* The non-tiled Overlay: its updates and the images it loads.
InitImages ==
    Init /\ ~config.tiled /\ config.identifyLayers = {} /\ config.crs = {}

NextImages ==
    \/ AddSubLayer("roads")
    \/ RemoveSubLayer("roads")
    \/ SourceAddTo
    \/ \E v \in Viewports : MoveEnd(v)
    \/ Update
    \/ \E i \in 1..Len(images) : ImageLoad(i)
    \/ \E i \in 1..Len(images) : ImageError(i)

SpecImages == InitImages /\ [][NextImages]_vars

\* identify() and the responses to its requests.
InitIdentify == Init /\ config.onError = {} /\ config.crs = {}

NextIdentify ==
    \/ AddSubLayer("roads")
    \/ RemoveSubLayer("roads")
    \/ SourceAddTo
    \/ SourceRemove
    \/ \E c \in Clicks : Identify(c)
    \/ \E c \in DirectPoints, l \in DirectLayers : GetFeatureInfo(c, l)
    \/ \E r \in 1..Len(requests), resp \in Responses : AjaxDone(r, resp)

SpecIdentify == InitIdentify /\ [][NextIdentify]_vars

\* The Overlay used on its own: attached and detached, its parameters set,
\* the map moved; the requests it issues.
InitOverlay ==
    Init /\ ~config.tiled /\ config.identifyLayers = {} /\ config.onError = {}

NextOverlay ==
    \/ OverlayAdd
    \/ OverlayRemove
    \/ \E p \in ParamChanges : SetParams(p)
    \/ \E v \in Viewports : MoveEnd(v)
    \/ Update
    \/ OverlayUpdateWmsParams

SpecOverlay == InitOverlay /\ [][NextOverlay]_vars

\* The cache of Sources: the lookups made directly and by new Layers.
InitCache ==
    /\ Init
    /\ ~config.tiled /\ config.identifyLayers = {}
    /\ config.onError = {} /\ config.crs = {}

NextCache ==
    \/ \E u \in Urls, o \in LookupOptions : GetSourceForUrl(u, o)
    \/ \E u \in Urls, o \in LookupOptions : NewLayer(u, "roads", o)

SpecCache == InitCache /\ [][NextCache]_vars

(***************************************************************************)
(* Sub-layers and the Overlay's attachment                                 *)
(***************************************************************************)

\* The value of the Overlay's layers parameter.
LayersParam == Param(overlay.wmsParams, "layers")

\* A step that is a call of addSubLayer or removeSubLayer, made directly or
\* by a Layer handle that is attached or detached.
SubLayerCall ==
    \/ \E n \in Names : AddSubLayer(n)
    \/ \E n \in Names : RemoveSubLayer(n)
    \/ \E h \in Handles : LayerAddTo(h)
    \/ \E h \in Handles : LayerRemove(h)

\* C1 as stated: after every addSubLayer/removeSubLayer call the layers
\* parameter is the comma-join of the sub-layer set in insertion order.
C1_LayersIsInsertionJoin ==
    [][SubLayerCall => Param(overlay'.wmsParams, "layers") = Join(subLayers', ",")]_vars

\* Whenever the Source is on a map and its sub-layer set is not empty, the
\* layers parameter is the comma-join of Object.keys of the set.
C1_KeysJoinWhileAttached ==
    (srcOnMap /\ subLayers # <<>>) =>
        LayersParam = Join(ObjectKeys(subLayers), ",")

\* A call that leaves the Source off the map or the set empty leaves the
\* layers parameter as it was.
C1_StaleOtherwise ==
    (SubLayerCall /\ (~srcOnMap' \/ subLayers' = <<>>)) =>
        Param(overlay'.wmsParams, "layers") = LayersParam

\* C1 amended: whenever the Source is on a map and its sub-layer set is not
\* empty, the layers parameter is the comma-join of Object.keys of the set:
\* the array-index names in ascending order, then the others in insertion
\* order; a call made while the Source is off the map, or one that empties
\* the set, leaves the parameter at its previous value.
C1_LayersIsKeysJoinWhileAttached ==
    []C1_KeysJoinWhileAttached /\ [][C1_StaleOtherwise]_vars

\* roads was added before 1, the Source is on the map, and the layers
\* parameter lists 1 first.
C1_Witness ==
    /\ srcOnMap
    /\ subLayers = <<"roads", "1">>
    /\ overlay.onMap
    /\ LayersParam = "1,roads"

\* C2 as stated: after every addSubLayer/removeSubLayer call the Overlay is
\* on the map if and only if the sub-layer set is not empty.
C2_AttachedIffNonEmpty ==
    [][SubLayerCall => (overlay'.onMap <=> subLayers' # <<>>)]_vars

\* While the Source is on a map, the Overlay is on the map if and only if
\* the sub-layer set is not empty.
C2_IffWhileSourceAttached ==
    srcOnMap => (overlay.onMap <=> subLayers # <<>>)

\* A call made while the Source is off the map leaves the Overlay's
\* attachment as it was.
C2_UnchangedWhileSourceDetached ==
    (SubLayerCall /\ ~srcOnMap') => overlay'.onMap = overlay.onMap

\* C2 amended: while the Source is on a map, the Overlay is on the map if and
\* only if the sub-layer set is not empty; a call made while the Source is
\* off the map leaves the Overlay's attachment as it was.
C2_AttachedIffNonEmptyWhileSourceAttached ==
    []C2_IffWhileSourceAttached /\ [][C2_UnchangedWhileSourceDetached]_vars

\* The Source is on the map, the last sub-layer has been removed and the
\* Overlay, which had issued a request, is off the map.
C2_Witness ==
    /\ srcOnMap
    /\ subLayers = <<>>
    /\ ~overlay.onMap
    /\ Len(images) > 0

(***************************************************************************)
(* The Overlay's images                                                    *)
(***************************************************************************)

\* Image i finishes loading in this step.
Loads(i) == images[i].status = "loading" /\ images'[i].status = "loaded"

\* Image i fails to load in this step.
Fails(i) == images[i].status = "loading" /\ images'[i].status = "failed"

\* The image of the request issued last (0: none).
LastRequest == Len(images)

\* C3, the steps: while the Overlay is on the map, the image of the last
\* request becomes the displayed one when it loads, and an image of an
\* earlier request with another URL, when it loads, is taken off the map
\* undisplayed and leaves the displayed image as it is.
C3_LoadSteps ==
    \A a \in 1..Len(images) :
        (Loads(a) /\ overlay.onMap) =>
            /\ a = LastRequest =>
                  /\ overlay'.currentOverlay = a
                  /\ images'[a].onMap
                  /\ images'[a].opacity = 1
            /\ (a < LastRequest /\ images[a].url # images[LastRequest].url) =>
                  /\ overlay'.currentOverlay = overlay.currentOverlay
                  /\ ~images'[a].onMap
                  /\ images'[a].opacity = 0

\* C3, the states: once the image of the last request B has loaded, it is
\* the displayed image while the Overlay is on the map, whatever has become
\* of the earlier requests, all of other URLs than B's.
C3_LastLoadedIsDisplayed ==
    (/\ LastRequest >= 2
     /\ overlay.onMap
     /\ images[LastRequest].status = "loaded"
     /\ \A a \in 1..(LastRequest - 1) : images[a].url # images[LastRequest].url)
    => overlay.currentOverlay = LastRequest

\* C3: last-requested-wins for a request A and a later request B of another URL.
C3_LastRequestedWins == []C3_LastLoadedIsDisplayed /\ [][C3_LoadSteps]_vars

\* A, then B of another URL, were requested; both have loaded; B is
\* displayed and A is off the map, never shown.
C3_Witness ==
    /\ Len(images) = 2
    /\ images[1].url # images[2].url
    /\ images[1].status = "loaded" /\ images[2].status = "loaded"
    /\ overlay.currentOverlay = 2
    /\ ~images[1].onMap /\ images[1].opacity = 0
    /\ images[2].onMap /\ images[2].opacity = 1

\* C4: for the non-tiled Overlay in any reachable state and any viewport v,
\* update() under v followed by update() under v issues no more than one
\* request, and the second call changes nothing; and update() under the
\* present viewport, which the last handler already ran, changes nothing.
C4_UpdateIdempotent ==
    overlay.kind = "overlay" =>
        /\ \A v \in Viewports :
              LET once == OverlayUpdate(World, v)
                  twice == OverlayUpdate(once, v)
              IN  /\ Len(once.imgs) <= Len(images) + 1
                  /\ twice = once
        /\ LET again == OverlayUpdate(World, viewport)
           IN  /\ again.imgs = images
               /\ again.o.currentUrl = overlay.currentUrl
               /\ again.o.currentOverlay = overlay.currentOverlay

\* The Overlay is on the map with one request issued, displayed after its
\* load, and the viewport it was issued for still shown.
C4_Witness ==
    /\ overlay.onMap
    /\ Len(images) = 1
    /\ overlay.currentUrl = {images[1].url}
    /\ overlay.currentOverlay = 1

\* C5: when an image fails to load, onError is called once with the URL of
\* that image if the Source was constructed with an onError, and not at all
\* otherwise; the Overlay, with its displayed image and last-issued URL, is
\* unchanged, and no image is created: only the failed image's status changes.
C5_LoadFailure ==
    [][\A i \in 1..Len(images) :
          Fails(i) =>
              /\ errorLog' =
                    IF config.onError # {}
                    THEN Append(errorLog, [error |-> "Failed to load layer",
                                           url |-> images[i].url])
                    ELSE errorLog
              /\ overlay' = overlay
              /\ images' = [images EXCEPT ![i].status = "failed"]]_vars

\* An image that is no longer the last request has failed while another is
\* displayed: onError was told its URL, and the displayed image is on the map.
C5_Witness ==
    /\ Len(images) = 3
    /\ images[1].status = "loaded" /\ overlay.currentOverlay = 1 /\ images[1].onMap
    /\ images[2].status = "failed"
    /\ images[2].url # images[3].url
    /\ errorLog = <<[error |-> "Failed to load layer", url |-> images[2].url]>>

(***************************************************************************)
(* identify                                                                *)
(***************************************************************************)

\* Every request so far was issued by identify.
OnlyIdentify == \A r \in 1..Len(requests) : requests[r].caller = "identify"

\* C6 as stated: the response to a request of identify is delivered to
\* showFeatureInfo only if identify has issued no request after it.
C6_OnlyLastRequestDelivered ==
    \A d \in delivered :
        requests[d.req].caller = "identify" =>
            \A r \in (d.req + 1)..d.issued : requests[r].caller # "identify"

\* C7 as stated: with identifyLayers configured, for every identify request
\* getIdentifyLayers returned the configured list and query_layers is its
\* comma-join.
C7_ConfiguredLayersQueried ==
    \A r \in 1..Len(requests) :
        requests[r].caller = "identify" =>
            \A l \in config.identifyLayers :
                /\ requests[r].layers = l
                /\ requests[r].queryLayers = Join(l, ",")

\* C8 as stated: when every identify request issued has been answered, the
\* waiting indicator is not set.
C8_ClearedWhenAllAnswered ==
    (/\ requests # <<>>
     /\ OnlyIdentify
     /\ \A r \in 1..Len(requests) : requests[r].status = "done")
    => cursor # "progress"

\* C9 as stated: a transport error delivers the iframe that refers to the
\* request's URL, and a success delivers the response text unchanged.
C9_ErrorGivesFrameSuccessGivesText ==
    \A d \in delivered :
        requests[d.req].caller = "identify" =>
        IF d.response.status = 200
        THEN d.info = d.response.text
        ELSE d.info = "<iframe src='" \o requests[d.req].url \o "' style='border:none'>"

(***************************************************************************)
(* Layer handles                                                           *)
(***************************************************************************)

\* C10: when a Layer handle is attached, afterwards its Source is on the
\* map, the handle's name is in the sub-layer set, and the Overlay is on the
\* map with a layers parameter that lists the set; when a handle is
\* detached, afterwards its name is not in the sub-layer set.
C10_LayerAttachDetach ==
    [][\A h \in Handles :
          /\ (h \notin layersOnMap /\ h \in layersOnMap') =>
                /\ srcOnMap'
                /\ HasKey(subLayers', LayerName[h])
                /\ overlay'.onMap
                /\ Param(overlay'.wmsParams, "layers") = Join(ObjectKeys(subLayers'), ",")
          /\ (h \in layersOnMap /\ h \notin layersOnMap') =>
                ~HasKey(subLayers', LayerName[h])]_vars

\* A Layer handle for roads is on the map, which attached its Source, and
\* the Overlay requests roads.
C10_Witness ==
    /\ layersOnMap = {"roadsA"}
    /\ srcOnMap
    /\ subLayers = <<"roads">>
    /\ overlay.onMap
    /\ LayersParam = "roads"

(***************************************************************************)
(* Spatial parameters                                                      *)
(***************************************************************************)

\* The reference system the Overlay computes with: its crs option, or else
\* the map's.
OverlayCrs == IF overlay.crs # {} THEN CHOOSE c \in overlay.crs : TRUE ELSE MapCrs

\* C11: while the non-tiled Overlay is on the map, that is after every
\* update, its bbox parameter is south,west,north,east of the viewport's
\* projected corners if the version is at least 1.3 and the reference system
\* is L.CRS.EPSG4326, and west,south,east,north in every other case; the
\* code of the reference system is written under crs if the version is at
\* least 1.3 and under srs otherwise; width and height are the map's size.
C11_SpatialParams ==
    (overlay.kind = "overlay" /\ overlay.onMap) =>
        LET p == overlay.wmsParams
            v13 == VersionAtLeast13(p)
            s == ToString(viewport.south)
            w == ToString(viewport.west)
            n == ToString(viewport.north)
            e == ToString(viewport.east)
        IN  /\ Param(p, "bbox") =
                  IF v13 /\ OverlayCrs.code = "EPSG:4326"
                  THEN s \o "," \o w \o "," \o n \o "," \o e
                  ELSE w \o "," \o s \o "," \o e \o "," \o n
            /\ HasParam(p, IF v13 THEN "crs" ELSE "srs")
            /\ Param(p, IF v13 THEN "crs" ELSE "srs") = OverlayCrs.code
            /\ Param(p, "width") = ToString(viewport.width)
            /\ Param(p, "height") = ToString(viewport.height)

\* Version 1.3.0 with L.CRS.EPSG4326: the bbox is latitude-first and the
\* code is under crs, in the URL of the request issued last.
C11_Witness ==
    /\ overlay.onMap
    /\ Param(overlay.wmsParams, "version") = "1.3.0"
    /\ OverlayCrs.code = "EPSG:4326"
    /\ Param(overlay.wmsParams, "bbox") = "5,30,15,40"
    /\ Param(overlay.wmsParams, "crs") = "EPSG:4326"
    /\ images # <<>>
    /\ images[Len(images)].url = GetImageUrl(overlay)

(***************************************************************************)
(* The cache of Sources                                                    *)
(***************************************************************************)

\* The Sources of different URLs are different objects, each of its own URL.
C12_DistinctSources ==
    \A u1, u2 \in DOMAIN sources :
        /\ sources[u1].url = u1
        /\ (u1 # u2 => sources[u1].id # sources[u2].id)

\* A lookup returns the entry of its URL: the entry there was if there was
\* one, and otherwise a Source created with this lookup's options, which no
\* other URL has; and no step removes or replaces an entry.
C12_LookupStep ==
    /\ \A u \in DOMAIN sources : u \in DOMAIN sources' /\ sources'[u] = sources[u]
    /\ returned' # returned =>
          \A ret \in returned' :
              /\ ret.url \in DOMAIN sources'
              /\ ret.source = sources'[ret.url]
              /\ ret.url \in DOMAIN sources => ret.source = sources[ret.url]
              /\ ret.url \notin DOMAIN sources =>
                    /\ ret.source.options = OptionsAfterCreate(SourceOptions(ret.options))
                    /\ \A u \in DOMAIN sources : sources[u].id # ret.source.id

\* C12: every lookup of the same URL, by getSourceForUrl or by a new Layer,
\* returns the same Source, created at the first lookup with its options;
\* different URLs have different Sources; no entry is removed or replaced.
C12_SourceCache == []C12_DistinctSources /\ [][C12_LookupStep]_vars

\* Both URLs are cached, and a new Layer given other options than the first
\* lookup's got the Source of the first lookup.
C12_Witness ==
    /\ DOMAIN sources = Urls
    /\ \E ret \in returned :
          /\ ret.layer # {}
          /\ ret.source = sources[ret.url]
          /\ ret.source.options # OptionsAfterCreate(SourceOptions(ret.options))

(***************************************************************************)
(* The Overlay while it is not on a map                                    *)
(***************************************************************************)

\* While the Overlay is off the map, update() changes nothing and
\* setParams(p) changes the WMS parameters to their merge with p and
\* nothing else.
C13_DetachedCalls ==
    (overlay.kind = "overlay" /\ ~overlay.onMap) =>
        /\ OverlayUpdate(World, viewport) = World
        /\ \A p \in ParamChanges :
              OverlaySetParams(World, p, viewport) =
                  [o |-> [overlay EXCEPT !.wmsParams = Extend(overlay.wmsParams, p)],
                   imgs |-> images]

\* A step that leaves the Overlay off the map issues no request and keeps
\* the last-issued URL and the displayed image; the step that attaches the
\* Overlay issues one request, whose URL is made of the parameters as they
\* were merged, version and styles included.
C13_DetachedSteps ==
    /\ (~overlay.onMap /\ ~overlay'.onMap) =>
          /\ images' = images
          /\ overlay'.currentUrl = overlay.currentUrl
          /\ overlay'.currentOverlay = overlay.currentOverlay
    /\ (~overlay.onMap /\ overlay'.onMap) =>
          /\ Len(images') = Len(images) + 1
          /\ images'[Len(images')].url = GetImageUrl(overlay')
          /\ overlay'.currentUrl = {GetImageUrl(overlay')}
          /\ \A k \in {"version", "styles"} :
                Param(overlay'.wmsParams, k) = Param(overlay.wmsParams, k)

\* C13: while the Overlay is not on a map, update() is a no-op and
\* setParams() only merges its argument: no request is issued, the
\* last-issued URL and the displayed image stay; the first request after the
\* Overlay is attached uses the parameters merged meanwhile.
C13_DetachedOverlay == []C13_DetachedCalls /\ [][C13_DetachedSteps]_vars

\* Version 1.3.0 was merged before the Overlay was first attached, and its
\* first request carries it.
C13_Witness ==
    /\ overlay.onMap
    /\ Len(images) = 1
    /\ Param(overlay.wmsParams, "version") = "1.3.0"
    /\ images[1].url = GetImageUrl(overlay)

(***************************************************************************)
(* Superseded requests and the images on the map                           *)
(***************************************************************************)

\* C14 as stated: an image that finishes loading after a newer request was
\* issued, whatever the newer request's URL, does not become the displayed
\* image and is not shown.
C14_OnlyLastRequestDisplayed ==
    [][\A a \in 1..Len(images) :
          (Loads(a) /\ a < LastRequest) =>
              /\ overlay'.currentOverlay # a
              /\ images'[a].opacity = 0]_vars

\* C15 as stated: an image that has loaded and is on the map is the
\* displayed image.
C15_LoadedIsDisplayedOrRemoved ==
    \A i \in 1..Len(images) :
        (images[i].status = "loaded" /\ images[i].onMap) =>
            overlay.currentOverlay = i

\* The images that are on the map and visible.
Visible == {i \in 1..Len(images) : images[i].onMap /\ images[i].opacity > 0}

\* At most one image is visible on the map, and it is the displayed image
\* of an Overlay that is on the map; an image in flight is invisible.
C16_VisibleIsDisplayed ==
    /\ Cardinality(Visible) <= 1
    /\ \A i \in Visible : overlay.onMap /\ overlay.currentOverlay = i
    /\ \A i \in 1..Len(images) : images[i].status = "loading" => images[i].opacity = 0
    /\ ~overlay.onMap => overlay.currentOverlay = 0

\* The step that makes a loaded image the displayed one takes the image
\* displayed before off the map.
C16_SwapRemovesPrevious ==
    \A a \in 1..Len(images) :
        (Loads(a) /\ overlay'.currentOverlay = a /\ overlay.currentOverlay \notin {0, a}) =>
            /\ images[overlay.currentOverlay].onMap
            /\ ~images'[overlay.currentOverlay].onMap

\* C16: the Overlay never has more than one visible image on the map; an
\* image in flight has opacity 0 until it is swapped in; the swap removes
\* the image displayed before; a detached Overlay has no displayed image.
C16_AtMostOneDisplayed == []C16_VisibleIsDisplayed /\ [][C16_SwapRemovesPrevious]_vars

\* The second image is displayed after the first, which was displayed
\* before it and has been taken off the map.
C16_Witness ==
    /\ Len(images) >= 2
    /\ images[1].status = "loaded" /\ images[1].opacity = 1 /\ ~images[1].onMap
    /\ images[2].status = "loaded" /\ images[2].opacity = 1 /\ images[2].onMap
    /\ overlay.currentOverlay = 2

\* C17 as stated: when an image fails after a newer request was issued,
\* onError is not called.
C17_NoErrorForSuperseded ==
    [][\A i \in 1..Len(images) :
          (Fails(i) /\ i < LastRequest) => errorLog' = errorLog]_vars

(***************************************************************************)
(* Several handles, several identify requests, several versions            *)
(***************************************************************************)

\* C18 as stated: a name carried by Layer handles is in the sub-layer set
\* exactly when one of the handles that carry it is on the map.
C18_InSetIffHandleAttached ==
    \A n \in {LayerName[h] : h \in Handles} :
        HasKey(subLayers, n) <=> (\E h \in layersOnMap : LayerName[h] = n)

\* C19 as stated: while the Source is on the map with the waiting indicator
\* set, a step that leaves the Source on the map and an identify request
\* pending, such as the response to another request, leaves the indicator set.
C19_WaitingWhilePending ==
    [][(/\ srcOnMap /\ srcOnMap'
        /\ OnlyIdentify'
        /\ cursor = "progress"
        /\ \E r \in 1..Len(requests') : requests'[r].status = "pending")
       => cursor' = "progress"]_vars

\* C20 as stated: the parameters of every request the Overlay issues have
\* exactly one of the keys srs and crs, the one of the version in force:
\* crs for a version of at least 1.3, srs otherwise.
C20_OneReferenceSystemKey ==
    [][Len(images') = Len(images) + 1 =>
          LET p == overlay'.wmsParams
          IN  /\ images'[Len(images')].url =
                    SourceUrl \o GetParamString(p, SourceUrl, FALSE)
              /\ HasParam(p, "crs") <=> VersionAtLeast13(p)
              /\ HasParam(p, "srs") <=> ~VersionAtLeast13(p)]_vars
====
